---- MODULE Spec2Model ----
(***************************************************************************)
(* A model of whisperlab/audio.py: the sample validator, the float32 ->    *)
(* int16 converter, roll, WaveBuffer, VirtualMicrophone and                *)
(* save_audio_segment.                                                     *)
(*                                                                         *)
(* An array is a record [dtype, data]; data is a sequence of samples.  A   *)
(* sample is an integer n standing for the real number n / Unit, so that   *)
(* 1.0 is Unit and the products the converter forms are exact.             *)
(*                                                                         *)
(* The outcome of a call is a record [status, value]: status "ok" with the *)
(* returned value, or the name of the exception the call raised.           *)
(***************************************************************************)
EXTENDS Integers, Sequences, FiniteSets, TLC

VARIABLES
    op,       \* the name of the last call made
    args,     \* its arguments
    result,   \* its outcome
    wb,       \* the WaveBuffer instance
    wbSize,   \* the buffer_size the WaveBuffer was constructed with
    vm,       \* the VirtualMicrophone instance
    vmLog,    \* the outcomes of the get() calls made on vm, oldest first
    globals,  \* the constants bound in the module namespace of whisperlab.audio
    files     \* the filesystem: the files written, path -> content

vars == <<op, args, result, wb, wbSize, vm, vmLog, globals, files>>

---------------------------------------------------------------------------
(* Bounds *)

\* the longest array passed to roll, WaveBuffer, the validator and the converter
MaxLen == 3
\* the longest array passed to save_audio_segment
MaxSaveLen == 2
\* the longest decoded audio array a VirtualMicrophone is built from
MaxAudio == 5
\* the number of get() calls made on one VirtualMicrophone
MaxGets == 4

---------------------------------------------------------------------------
(* Values *)

\* audio.py:120, the factor of the conversion
Int16Scale == 32768
\* a sample n stands for n / Unit
Unit == 2 * Int16Scale

\* the element values of the arrays rolled and buffered
RollVals == {0, 7, 9}

SeqsUpTo(S, n) == UNION {[1..k -> S] : k \in 0..n}

Ok(v) == [status |-> "ok", value |-> v]
Raise(e) == [status |-> e, value |-> <<>>]
NoCall == [status |-> "none", value |-> <<>>]
NoObject == [class |-> "none"]
\* the value of a call that returns nothing
None == <<>>

Abs(n) == IF n < 0 THEN -n ELSE n

\* the samples of the arrays validated and converted: -1.0 and 1.0, their
\* neighbours on both sides, and small values whose product with 32768 has a
\* fraction
Samples == {-Unit - 1, -Unit, -Unit + 1, -3, -1, 0, 1, 3, Unit - 1, Unit, Unit + 1}
\* the samples of the arrays saved
SaveSamples == {0, Unit, Unit + 1}
\* the samples of the decoded audio files
MicVals == {0, 1, 3}
DTypes == {"float32", "float64"}
Texts == {"", "hello"}
Array(t, d) == [dtype |-> t, data |-> d]
Arrays(S, n) == {Array(t, d) : t \in DTypes, d \in SeqsUpTo(S, n)}

---------------------------------------------------------------------------
(* Python and numpy primitives used by roll *)

\* s[start:] of a sequence s (0-based start; a negative start counts from the end)
SliceFrom(s, start) ==
    LET n == Len(s)
        lo == IF start < 0
              THEN (IF n + start < 0 THEN 0 ELSE n + start)
              ELSE (IF start > n THEN n ELSE start)
    IN  SubSeq(s, lo + 1, n)

\* the 0-based index s[start:] begins at
SliceStart(s, start) ==
    LET n == Len(s)
    IN  IF start < 0
        THEN (IF n + start < 0 THEN 0 ELSE n + start)
        ELSE (IF start > n THEN n ELSE start)

\* np.roll(a, shift) of a 1-D array: element i moves to (i + shift) mod n
np_roll(a, shift) ==
    LET n == Len(a)
    IN  IF n = 0 THEN a
        ELSE [i \in 1..n |-> a[(((i - 1) - shift) % n) + 1]]

\* a[start:] = v of numpy: v must have the length of the slice or length 1
\* (broadcast); any other length raises ValueError
SetSliceFrom(a, start, v) ==
    LET lo == SliceStart(a, start)
        t  == Len(a) - lo
    IN  IF Len(v) = t
        THEN Ok([i \in 1..Len(a) |-> IF i <= lo THEN a[i] ELSE v[i - lo]])
        ELSE IF Len(v) = 1
        THEN Ok([i \in 1..Len(a) |-> IF i <= lo THEN a[i] ELSE v[1]])
        ELSE Raise("ValueError")

\* roll(buffer, samples)
roll(buffer, samples) ==
    IF Len(samples) > Len(buffer)
    THEN Ok(SliceFrom(samples, -Len(buffer)))
    ELSE LET left_shift == -Len(samples)
             rolled == np_roll(buffer, left_shift)
         IN  SetSliceFrom(rolled, left_shift, samples)

---------------------------------------------------------------------------
(* Validation and conversion *)

\* ValidateAudioArray with the range check made before the type check
ValidateAudioArray_RangeFirst(audio, dtype) ==
    IF Len(audio.data) = 0 THEN "EmptyArray"
    ELSE IF \E i \in 1..Len(audio.data) : Abs(audio.data[i]) > Unit THEN "AudioOverflow"
    ELSE IF audio.dtype # dtype THEN "ArrayTypeError"
    ELSE "ok"

\* ValidateAudioArray(audio, dtype): the status of the call
ValidateAudioArray(audio, dtype) ==
    IF Len(audio.data) = 0 THEN "EmptyArray"
    ELSE IF audio.dtype # dtype THEN "ArrayTypeError"
    ELSE IF \E i \in 1..Len(audio.data) : Abs(audio.data[i]) > Unit THEN "AudioOverflow"
    ELSE "ok"

\* the float32 product s * 32768 of a sample, rounded towards zero: the
\* sample n stands for n / Unit, so the product is n / (Unit / 32768)
ScaleTrunc(n) ==
    IF n >= 0 THEN n \div (Unit \div Int16Scale)
    ELSE -((-n) \div (Unit \div Int16Scale))

\* What a build does with a float that int16 does not hold: the C conversion
\* numpy performs is undefined there; builds wrap modulo 2^16 or saturate.
CastModes == {"wrap", "saturate"}

\* .astype(np.int16) of an integral float x under a build's cast mode
astype_int16(x, mode) ==
    IF x >= -Int16Scale /\ x <= Int16Scale - 1 THEN x
    ELSE IF mode = "wrap" THEN ((x + Int16Scale) % (2 * Int16Scale)) - Int16Scale
    ELSE IF x < 0 THEN -Int16Scale ELSE Int16Scale - 1

\* float32_to_int16(audio): the outcomes the call can have
float32_to_int16(audio) ==
    LET v == ValidateAudioArray(audio, "float32")
    IN  IF v # "ok" THEN {Raise(v)}
        ELSE {Ok(Array("int16", [i \in 1..Len(audio.data) |->
                                    astype_int16(ScaleTrunc(audio.data[i]), mode)]))
              : mode \in CastModes}

---------------------------------------------------------------------------
(* Files *)

NoFiles == [p \in {} |-> None]
Write(fs, p, c) == [q \in (DOMAIN fs) \cup {p} |-> IF q = p THEN c ELSE fs[q]]
Dir(name) == [parent |-> "", stem |-> name, suffix |-> ""]
with_suffix(p, s) == [p EXCEPT !.suffix = s]
BasePaths == {[parent |-> "out", stem |-> "seg", suffix |-> ".raw"]}

\* the audio files a VirtualMicrophone is built from: an empty file, and
\* files that whisper.audio.load_audio decodes to the array `decoded`
AudioFiles ==
    {[st_size |-> 0, decoded |-> Array("float32", <<>>)]}
    \cup {[st_size |-> 1, decoded |-> Array("float32", d)] : d \in SeqsUpTo(MicVals, MaxAudio)}

\* ValidateAudioFile(audio_file): the status of the call
ValidateAudioFile(audio_file) ==
    IF audio_file.st_size = 0 THEN "EmptyFile" ELSE "ok"

\* load_audio_file(audio_file)
load_audio_file(audio_file) ==
    IF ValidateAudioFile(audio_file) # "ok"
    THEN Raise(ValidateAudioFile(audio_file))
    ELSE Ok(audio_file.decoded)

\* save_audio_segment with the text written before the audio is converted
save_audio_segment_TextFirst(fs, audio, text, base_path) ==
    LET made == Write(Write(fs, Dir(base_path.parent), [kind |-> "dir"]),
                      with_suffix(base_path, ".txt"), [kind |-> "text", text |-> text])
        audio_path == with_suffix(base_path, ".wav")
    IN  {IF c.status # "ok"
         THEN [files |-> made, result |-> c]
         ELSE [files |-> Write(made, audio_path, [kind |-> "wav", frames |-> c.value.data]),
               result |-> Ok(None)]
         : c \in float32_to_int16(audio)}

\* save_audio_segment(audio, text, base_path) on the filesystem fs: the
\* outcomes the call can have, each the filesystem it leaves and its result
save_audio_segment(fs, audio, text, base_path) ==
    LET made == Write(fs, Dir(base_path.parent), [kind |-> "dir"])
        text_path == with_suffix(base_path, ".txt")
        audio_path == with_suffix(base_path, ".wav")
    IN  {IF c.status # "ok"
         THEN [files |-> made, result |-> c]
         ELSE [files |-> Write(Write(made, audio_path,
                                     [kind |-> "wav", frames |-> c.value.data]),
                               text_path, [kind |-> "text", text |-> text]),
               result |-> Ok(None)]
         : c \in float32_to_int16(audio)}

---------------------------------------------------------------------------
(* State *)

\* the constants audio.py binds at module level (audio.py:18)
AudioGlobals == {"SAMPLES_PER_SECOND"}

\* the number of samples of one window, which audio.py reads as the global
\* SAMPLES_PER_WINDOW and never binds
SAMPLES_PER_WINDOW == 2

Init ==
    /\ op = "none"
    /\ args = <<>>
    /\ result = NoCall
    /\ wb = NoObject
    /\ wbSize = 0
    /\ vm = NoObject
    /\ vmLog = <<>>
    /\ globals = AudioGlobals
    /\ files = NoFiles

---------------------------------------------------------------------------
(* Actions.  roll, ValidateAudioArray and float32_to_int16 read and write  *)
(* no state: a behaviour calls one of them once.  The objects share no     *)
(* state: a behaviour follows one of them.                                 *)

\* a call roll(buffer, samples)
RollCall ==
    /\ op = "none"
    /\ \E buffer \in SeqsUpTo(RollVals, MaxLen), samples \in SeqsUpTo(RollVals, MaxLen) :
        /\ op' = "roll"
        /\ args' = <<buffer, samples>>
        /\ result' = roll(buffer, samples)
    /\ UNCHANGED <<wb, wbSize, vm, vmLog, globals, files>>

\* a call ValidateAudioArray(audio, dtype)
ValidateCall ==
    /\ op = "none"
    /\ \E audio \in Arrays(Samples, MaxLen), dtype \in DTypes :
        /\ op' = "ValidateAudioArray"
        /\ args' = <<audio, dtype>>
        /\ result' = [status |-> ValidateAudioArray(audio, dtype), value |-> None]
    /\ UNCHANGED <<wb, wbSize, vm, vmLog, globals, files>>

\* a call float32_to_int16(audio)
ConvertCall ==
    /\ op = "none"
    /\ \E audio \in Arrays(Samples, MaxLen) :
        /\ op' = "float32_to_int16"
        /\ args' = <<audio>>
        /\ result' \in float32_to_int16(audio)
    /\ UNCHANGED <<wb, wbSize, vm, vmLog, globals, files>>

\* WaveBuffer(buffer_size)
WBInit ==
    /\ op = "none"
    /\ \E buffer_size \in 0..MaxLen :
        /\ op' = "WaveBuffer"
        /\ args' = <<buffer_size>>
        /\ wb' = [class |-> "WaveBuffer", buffer |-> [i \in 1..buffer_size |-> 0]]
        /\ wbSize' = buffer_size
        /\ result' = Ok(None)
    /\ UNCHANGED <<vm, vmLog, globals, files>>

\* WaveBuffer.process(audio_samples)
process(audio_samples) == audio_samples

\* WaveBuffer.put(audio_samples)
WBPut ==
    /\ wb.class = "WaveBuffer"
    /\ \E audio_samples \in SeqsUpTo(RollVals, MaxLen) :
        /\ op' = "WaveBuffer.put"
        /\ args' = <<audio_samples>>
        /\ wb' = [wb EXCEPT !.buffer = process(audio_samples)]
        /\ result' = Ok(None)
    /\ UNCHANGED <<wbSize, vm, vmLog, globals, files>>

\* WaveBuffer.get()
WBGet ==
    /\ wb.class = "WaveBuffer"
    /\ op' = "WaveBuffer.get"
    /\ args' = <<>>
    /\ result' = Ok(wb.buffer)
    /\ UNCHANGED <<wb, wbSize, vm, vmLog, globals, files>>

\* a call save_audio_segment(audio, text, base_path)
SaveCall ==
    /\ op \in {"none", "save_audio_segment"}
    /\ \E audio \in Arrays(SaveSamples, MaxSaveLen), text \in Texts, base_path \in BasePaths :
        \E out \in save_audio_segment(files, audio, text, base_path) :
            /\ op' = "save_audio_segment"
            /\ args' = <<audio, text, base_path>>
            /\ files' = out.files
            /\ result' = out.result
    /\ UNCHANGED <<wb, wbSize, vm, vmLog, globals>>

\* VirtualMicrophone(audio_file).  An exception leaves the caller without
\* the instance.
VMInit ==
    /\ op = "none"
    /\ \E audio_file \in AudioFiles :
        LET samples == load_audio_file(audio_file)
            n == Len(samples.value.data)
            segments == n \div SAMPLES_PER_WINDOW
            kept == SubSeq(samples.value.data, 1, segments * SAMPLES_PER_WINDOW)
            rows == [i \in 1..segments |->
                        SubSeq(kept, (i - 1) * SAMPLES_PER_WINDOW + 1, i * SAMPLES_PER_WINDOW)]
        IN  /\ op' = "VirtualMicrophone"
            /\ args' = <<audio_file>>
            /\ IF samples.status # "ok"
               THEN vm' = NoObject /\ result' = Raise(samples.status)
               ELSE IF "SAMPLES_PER_WINDOW" \notin globals
               THEN vm' = NoObject /\ result' = Raise("NameError")
               ELSE /\ vm' = [class |-> "VirtualMicrophone", audio_file |-> audio_file,
                              samples |-> rows, index |-> 0]
                    /\ result' = Ok(None)
    /\ UNCHANGED <<wb, wbSize, vmLog, globals, files>>

\* VirtualMicrophone.get()
VMGet ==
    /\ vm.class = "VirtualMicrophone"
    /\ Len(vmLog) < MaxGets
    /\ op' = "VirtualMicrophone.get"
    /\ args' = <<>>
    /\ IF "segments" \notin DOMAIN vm
       THEN vm' = vm /\ result' = Raise("AttributeError")
       ELSE IF vm.index >= vm.segments
       THEN vm' = vm /\ result' = Raise("Exception: Unexpected end of samples")
       ELSE vm' = [vm EXCEPT !.index = vm.index + 1] /\ result' = Ok(None)
    /\ vmLog' = Append(vmLog, result')
    /\ UNCHANGED <<wb, wbSize, globals, files>>

---------------------------------------------------------------------------
(* Specifications *)

\* The program.  No VirtualMicrophone is ever built (VMInit raises), so
\* VirtualMicrophone.get() has nothing to be called on and is no step of it.
Next ==
    \/ RollCall
    \/ ValidateCall
    \/ ConvertCall
    \/ WBInit
    \/ WBPut
    \/ WBGet
    \/ SaveCall
    \/ VMInit

Spec == Init /\ [][Next]_vars

\* The file replay with SAMPLES_PER_WINDOW bound in the module namespace, as
\* the window size sample_rate * window_length_seconds: what the instance
\* does once it can be built.
InitReplay ==
    /\ op = "none"
    /\ args = <<>>
    /\ result = NoCall
    /\ wb = NoObject
    /\ wbSize = 0
    /\ vm = NoObject
    /\ vmLog = <<>>
    /\ globals = AudioGlobals \cup {"SAMPLES_PER_WINDOW"}
    /\ files = NoFiles

NextReplay ==
    \/ VMInit
    \/ VMGet

SpecReplay == InitReplay /\ [][NextReplay]_vars

---------------------------------------------------------------------------
(* Claims *)

\* the error VirtualMicrophone.get() raises past the last window
ExhaustionError == "Exception: Unexpected end of samples"
\* the errors of ValidateAudioArray
ValidationErrors == {"EmptyArray", "ArrayTypeError", "AudioOverflow"}

\* the last n elements of s
LastN(s, n) == SubSeq(s, Len(s) - n + 1, Len(s))

\* the rolled buffer as specified
RollReference(buffer, samples) ==
    IF Len(samples) >= Len(buffer)
    THEN LastN(samples, Len(buffer))
    ELSE SubSeq(buffer, Len(samples) + 1, Len(buffer)) \o samples

\* C1: the array roll(B, S) returns has the length of B, for every buffer B
\* (of length 0 too) and every batch S.
C1_RollLength ==
    (op = "roll" /\ result.status = "ok") => Len(result.value) = Len(args[1])

\* C2: roll(B, S) is the last N elements of S when len(S) >= N, and B[len(S):]
\* followed by S when len(S) < N.
C2_RollReference ==
    op = "roll" => result = Ok(RollReference(args[1], args[2]))

\* C3: roll(B, S) raises for no pair of inputs, and returns an array equal to
\* B when S is empty.
C3_RollNeverFails ==
    op = "roll" =>
        /\ result.status = "ok"
        /\ (Len(args[2]) = 0 => result.value = args[1])

\* C4: whatever was put, get() on a WaveBuffer constructed with buffer_size N
\* returns an array of length N.
C4_BufferLength ==
    op = "WaveBuffer.get" => Len(result.value) = wbSize

\* C5: a VirtualMicrophone asked for from a file whose decoded array has
\* length k*W + r (r < W) is built; its first k get() calls succeed and call
\* k + 1 fails with the exhaustion error.
C5_KWindowsThenExhaustion ==
    /\ (op = "VirtualMicrophone" /\ args[1].st_size > 0) => vm.class = "VirtualMicrophone"
    /\ vm.class = "VirtualMicrophone" =>
        LET k == Len(vm.audio_file.decoded.data) \div SAMPLES_PER_WINDOW
        IN  \A i \in 1..Len(vmLog) :
                /\ (i <= k => vmLog[i].status = "ok")
                /\ (i = k + 1 => vmLog[i].status = ExhaustionError)

\* a step that is a get() call on the built VirtualMicrophone
GetStep == vm.class = "VirtualMicrophone" /\ vmLog' # vmLog

C8_ValidateOrder ==
    op = "ValidateAudioArray" =>
        LET audio == args[1]
            dtype == args[2]
            empty == Len(audio.data) = 0
            mistyped == audio.dtype # dtype
            over == \E i \in 1..Len(audio.data) :
                        audio.data[i] > Unit \/ audio.data[i] < -Unit
        IN  /\ result.status \in ValidationErrors \cup {"ok"}
            /\ result.status = "EmptyArray" <=> empty
            /\ result.status = "ArrayTypeError" <=> (~empty /\ mistyped)
            /\ result.status = "AudioOverflow" <=> (~empty /\ ~mistyped /\ over)
            /\ result.status = "ok" <=> (~empty /\ ~mistyped /\ ~over)

\* C8's case: an array of another type than expected that also holds a sample
\* beyond 1.0 is rejected for its type
C8_Witness ==
    /\ op = "ValidateAudioArray"
    /\ args[1].dtype # args[2]
    /\ \E i \in 1..Len(args[1].data) : args[1].data[i] > Unit
    /\ \E i \in 1..Len(args[1].data) : args[1].data[i] = -Unit
    /\ result.status = "ArrayTypeError"

\* C9: float32_to_int16 is monotonic: of two samples s1 < s2 of an accepted
\* array, the output for s1 is at most the output for s2.
C9_Monotonic ==
    (op = "float32_to_int16" /\ result.status = "ok") =>
        \A i, j \in 1..Len(args[1].data) :
            args[1].data[i] < args[1].data[j] => result.value.data[i] <= result.value.data[j]

\* the files proper of a filesystem, its directories left out
Written(fs) == {<<p, fs[p]>> : p \in {q \in DOMAIN fs : fs[q].kind # "dir"}}

\* C10: a save_audio_segment call whose samples fail validation raises the
\* validation error and writes neither the .wav nor the .txt file.
C10_NoPartialSave ==
    [][(op' = "save_audio_segment"
        /\ ValidateAudioArray(args'[1], "float32") # "ok") =>
            /\ result'.status = ValidateAudioArray(args'[1], "float32")
            /\ Written(files') = Written(files)]_vars

\* C10's case: a save that failed validation, made after one that wrote both
\* files
C10_Witness ==
    /\ op = "save_audio_segment"
    /\ result.status = "AudioOverflow"
    /\ Cardinality(Written(files)) = 2

====
